---- MODULE Spec2Model ----
(***************************************************************************)
(* Model of the Electron main process of screen-blur-focus                 *)
(* (src/electron-main.js): one overlay window per display, a 100 ms poll   *)
(* timer that resolves the display under the cursor and pushes             *)
(* (blurred, opacity) to every overlay, a tray menu, and a relaunch on     *)
(* display-added / display-removed.                                        *)
(*                                                                         *)
(* JavaScript arrays are modelled as sequences: the element with JS index  *)
(* i is element i+1 of the sequence.  mouseScreenIndex keeps the JS        *)
(* (0-based) value.  Opacities are kept in percent (0.7 is 70).            *)
(***************************************************************************)
EXTENDS Integers, Sequences, FiniteSets, TLC

\* ---- bounds of the model ------------------------------------------------
MaxDisplays == 2
MaxInstances == 2

\* ---- the host's display rectangles and cursor points ---------------------
RectA == [x |-> 0, y |-> 0, width |-> 1920, height |-> 1080]
RectB == [x |-> 1920, y |-> 0, width |-> 1920, height |-> 1080]
\* a rectangle overlapping both (a malformed / spanning topology)
RectC == [x |-> 0, y |-> 0, width |-> 3840, height |-> 1080]
Rects == {RectA, RectB, RectC}

Points ==
  { [x |-> 100, y |-> 100], [x |-> 2000, y |-> 100], [x |-> 1920, y |-> 100],
    [x |-> 100, y |-> 1080] }

NoPoint == [x |-> -9, y |-> -9]

RECURSIVE SeqsOfLen(_)
SeqsOfLen(n) ==
  IF n = 0 THEN { << >> }
  ELSE { Append(s, r) : s \in SeqsOfLen(n - 1), r \in Rects }

Range(s) == { s[k] : k \in DOMAIN s }

\* ordered display lists without a repeated rectangle
Topologies ==
  { s \in UNION { SeqsOfLen(n) : n \in 0..MaxDisplays } :
      Cardinality(Range(s)) = Len(s) }

\* variant: 'Very Strong' written as 9 instead of 0.9
IntensitiesSlip == {30, 50, 70, 900}

\* the four values of the 'Blur Intensity' submenu, in percent
Intensities == {30, 50, 70, 90}

VARIABLES
  instance,         \* number of the process instance (1 = first launch)
  phase,            \* "Launching", "Running", "Quitting", "Restarting",
                    \* "Exited", "Failed" (the whenReady handler threw)
  displays,         \* host: what screen.getAllDisplays() returns now
  overlayWindows,   \* the overlayWindows array of the instance
  blurEnabled,
  blurOpacity,
  timer,            \* "none" | "armed" | "cancelled"
  lifecycle,        \* the lifecycle calls and events of the instance, in order
  liveSets,         \* host: instances whose overlay windows exist
  tickDisplays,     \* 'displays' read by the last run of updateOverlays
  currentCursor,    \* 'currentCursor' read by the last run of updateOverlays
  mouseScreenIndex, \* 'mouseScreenIndex' of the last run of updateOverlays
  uncaught          \* callback an exception escaped from: "none",
                    \* "whenReady" or "updateOverlays"

vars == << instance, phase, displays, overlayWindows, blurEnabled, blurOpacity,
           timer, lifecycle, liveSets, tickDisplays, currentCursor,
           mouseScreenIndex, uncaught >>

\* ---- createOverlayWindow -------------------------------------------------
createOverlayWindow(display) ==
  [ bounds |-> display, shown |-> FALSE,
    pushed |-> FALSE, blurred |-> FALSE, opacity |-> 0,
    sent |-> 0 ]   \* 'set-blur' messages sent to it by the latest run

\* ---- focus resolution (updateOverlays, first half) -----------------------
\* variant: the far edges counted as inside
ContainsMaxInclusive(bounds, c) ==
  /\ c.x >= bounds.x
  /\ c.x <= bounds.x + bounds.width
  /\ c.y >= bounds.y
  /\ c.y <= bounds.y + bounds.height

Contains(bounds, c) ==
  /\ c.x >= bounds.x
  /\ c.x < bounds.x + bounds.width
  /\ c.y >= bounds.y
  /\ c.y < bounds.y + bounds.height

\* variant: the loop stops at the first display that contains the cursor
RECURSIVE ForEachDisplayBreak(_, _, _, _)
ForEachDisplayBreak(T, c, k, msi) ==
  IF k > Len(T) THEN msi
  ELSE IF Contains(T[k], c) THEN k - 1
  ELSE ForEachDisplayBreak(T, c, k + 1, msi)

RECURSIVE ForEachDisplay(_, _, _, _)
ForEachDisplay(T, c, k, msi) ==
  IF k > Len(T) THEN msi
  ELSE ForEachDisplay(T, c, k + 1, IF Contains(T[k], c) THEN k - 1 ELSE msi)

\* variant: the index starts one below the first display
InitialIndexUnset == Len(<< >>) - 1

InitialIndex == 0

FocusResolve(T, c) == ForEachDisplay(T, c, 1, InitialIndex)

\* ---- broadcast (updateOverlays, second half) -----------------------------
\* variant: the enabled flag is not consulted
BlurredIgnoringEnabled(enabled, index, msi) == index # msi

\* variant: the comparison with the focused index is inverted
BlurredInverted(enabled, index, msi) == enabled /\ index = msi

Blurred(enabled, index, msi) == enabled /\ index # msi

\* variant: nothing is sent to a handle that is not to be blurred
SendSetBlurOnlyWhenBlurred(overlay, b, opacity) ==
  IF b
  THEN [overlay EXCEPT !.pushed = TRUE, !.blurred = TRUE,
                       !.opacity = opacity, !.shown = TRUE,
                       !.sent = @ + 1]
  ELSE overlay

\* variant: the window's visibility is toggled instead of shown
SendSetBlurToggleShow(overlay, b, opacity) ==
  IF b
  THEN [overlay EXCEPT !.pushed = TRUE, !.blurred = TRUE,
                       !.opacity = opacity, !.shown = ~@,
                       !.sent = @ + 1]
  ELSE [overlay EXCEPT !.pushed = TRUE, !.blurred = FALSE,
                       !.opacity = opacity, !.sent = @ + 1]

\* variant: a handle that is not to be blurred is hidden
SendSetBlurHideWhenClear(overlay, b, opacity) ==
  IF b
  THEN [overlay EXCEPT !.pushed = TRUE, !.blurred = TRUE,
                       !.opacity = opacity, !.shown = TRUE,
                       !.sent = @ + 1]
  ELSE [overlay EXCEPT !.pushed = TRUE, !.blurred = FALSE,
                       !.opacity = opacity, !.shown = FALSE,
                       !.sent = @ + 1]

SendSetBlur(overlay, b, opacity) ==
  IF b
  THEN [overlay EXCEPT !.pushed = TRUE, !.blurred = TRUE,
                       !.opacity = opacity, !.shown = TRUE,
                       !.sent = @ + 1]
  ELSE [overlay EXCEPT !.pushed = TRUE, !.blurred = FALSE,
                       !.opacity = opacity, !.sent = @ + 1]

\* the forEach of one run; the per-run message count starts at 0
Broadcast(ws, enabled, opacity, msi) ==
  [ k \in DOMAIN ws |->
      SendSetBlur([ws[k] EXCEPT !.sent = 0],
                  Blurred(enabled, k - 1, msi), opacity) ]

\* variant: the broadcast uses the focused index of the previous run
updateOverlaysStaleFocus(c, enabled, opacity) ==
  /\ tickDisplays' = displays
  /\ currentCursor' = c
  /\ mouseScreenIndex' = FocusResolve(displays, c)
  /\ overlayWindows' =
       Broadcast(overlayWindows, enabled, opacity, mouseScreenIndex)

\* one run of updateOverlays with cursor c; enabled and opacity are the
\* values of blurEnabled and blurOpacity when it runs
updateOverlays(c, enabled, opacity) ==
  /\ tickDisplays' = displays
  /\ currentCursor' = c
  /\ mouseScreenIndex' = FocusResolve(displays, c)
  /\ overlayWindows' =
       Broadcast(overlayWindows, enabled, opacity, FocusResolve(displays, c))

\* ---- process lifecycle ---------------------------------------------------
\* the end of the process: its windows are destroyed and its memory (the
\* overlayWindows array, the values of the last run) no longer exists
ProcessEnds ==
  /\ overlayWindows' = << >>
  /\ tickDisplays' = << >>
  /\ currentCursor' = NoPoint
  /\ mouseScreenIndex' = 0
  /\ uncaught' = "none"

\* variant: the windows of the exiting instance stay on the host
AfterExitKeep(S, i) == S

\* the overlay sets left on the host once instance i has exited
AfterExit(S, i) == S \ {i}

Init ==
  /\ instance = 1
  /\ phase = "Launching"
  /\ displays \in Topologies
  /\ overlayWindows = << >>
  /\ blurEnabled = TRUE
  /\ blurOpacity = 70
  /\ timer = "none"
  /\ lifecycle = << >>
  /\ liveSets = {}
  /\ tickDisplays = << >>
  /\ currentCursor = NoPoint
  /\ mouseScreenIndex = 0
  /\ uncaught = "none"

\* app.whenReady().then(...)
WhenReady ==
  /\ phase = "Launching"
  /\ overlayWindows' = [ k \in DOMAIN displays |-> createOverlayWindow(displays[k]) ]
  /\ liveSets' = liveSets \cup {instance}
  /\ timer' = "armed"
  /\ phase' = "Running"
  /\ UNCHANGED << instance, displays, blurEnabled, blurOpacity, lifecycle,
                  tickDisplays, currentCursor, mouseScreenIndex,
                  uncaught >>

\* app.whenReady().then(...) when the host refuses the window of display k:
\* new BrowserWindow throws inside the forEach, the rest of the handler
\* (later displays, tray, timer, display listeners) does not run
WhenReadyCreateFails ==
  /\ phase = "Launching"
  /\ \E k \in DOMAIN displays :
       /\ overlayWindows' =
            [ j \in 1..(k - 1) |-> createOverlayWindow(displays[j]) ]
       /\ liveSets' = IF k > 1 THEN liveSets \cup {instance} ELSE liveSets
  /\ phase' = "Failed"
  /\ uncaught' = "whenReady"
  /\ UNCHANGED << instance, displays, blurEnabled, blurOpacity, timer,
                  lifecycle, tickDisplays, currentCursor, mouseScreenIndex >>

\* a firing of the timer in which screen.getAllDisplays() or
\* screen.getCursorScreenPoint() throws: updateOverlays has no try/catch,
\* nothing is pushed and the exception leaves the callback
TimerTickReadFails ==
  /\ phase \in {"Running", "Quitting"}
  /\ timer = "armed"
  /\ uncaught' = "updateOverlays"
  /\ UNCHANGED << instance, phase, displays, overlayWindows, blurEnabled,
                  blurOpacity, timer, lifecycle, liveSets, tickDisplays,
                  currentCursor, mouseScreenIndex >>

\* setInterval(updateOverlays, 100): one firing of the timer
TimerTick ==
  /\ phase \in {"Running", "Quitting"}
  /\ timer = "armed"
  /\ \E c \in Points : updateOverlays(c, blurEnabled, blurOpacity)
  /\ UNCHANGED << instance, phase, displays, blurEnabled, blurOpacity, timer,
                  lifecycle, liveSets,
                  uncaught >>

\* variant: the click only stores the flag and leaves the push to the timer
ClickEnableBlurDeferred ==
  /\ phase = "Running"
  /\ blurEnabled' = ~blurEnabled
  /\ UNCHANGED << instance, phase, displays, blurOpacity, timer, lifecycle,
                  liveSets, overlayWindows, tickDisplays, currentCursor,
                  mouseScreenIndex,
                  uncaught >>

\* tray: 'Enable Blur' checkbox; a click flips the item's checked state,
\* which started as blurEnabled
ClickEnableBlur ==
  /\ phase = "Running"
  /\ blurEnabled' = ~blurEnabled
  /\ \E c \in Points : updateOverlays(c, blurEnabled', blurOpacity)
  /\ UNCHANGED << instance, phase, displays, blurOpacity, timer, lifecycle,
                  liveSets,
                  uncaught >>

\* variant: choosing an intensity also switches blur on
ClickIntensityEnables ==
  /\ phase = "Running"
  /\ blurEnabled' = TRUE
  /\ \E o \in Intensities :
       /\ blurOpacity' = o
       /\ \E c \in Points : updateOverlays(c, TRUE, o)
  /\ UNCHANGED << instance, phase, displays, timer, lifecycle, liveSets,
                  uncaught >>

\* tray: one of the four 'Blur Intensity' items
ClickIntensity ==
  /\ phase = "Running"
  /\ \E o \in Intensities :
       /\ blurOpacity' = o
       /\ \E c \in Points : updateOverlays(c, blurEnabled, o)
  /\ UNCHANGED << instance, phase, displays, blurEnabled, timer, lifecycle,
                  liveSets,
                  uncaught >>

\* tray: 'Quit' calls app.quit(), which starts closing the windows
ClickQuit ==
  /\ phase = "Running"
  /\ phase' = "Quitting"
  /\ lifecycle' = Append(lifecycle, "quit")
  /\ UNCHANGED << instance, displays, overlayWindows, blurEnabled, blurOpacity,
                  timer, liveSets, tickDisplays, currentCursor,
                  mouseScreenIndex,
                  uncaught >>

\* the windows have closed and the process ends
QuitFinish ==
  /\ phase = "Quitting"
  /\ phase' = "Exited"
  /\ ProcessEnds
  /\ liveSets' = AfterExit(liveSets, instance)
  /\ UNCHANGED << instance, displays, blurEnabled, blurOpacity, timer,
                  lifecycle >>

\* variant: app.exit() called before app.relaunch()
OnDisplayChangeExitFirst(event) ==
  /\ lifecycle' = lifecycle \o << event, "exit", "relaunch" >>
  /\ phase' = "Restarting"
  /\ ProcessEnds
  /\ liveSets' = AfterExit(liveSets, instance)

\* variant: app.relaunch() without app.exit()
OnDisplayChangeNoExit(event) ==
  /\ lifecycle' = lifecycle \o << event, "relaunch" >>
  /\ UNCHANGED << phase, overlayWindows, liveSets, tickDisplays,
                  currentCursor, mouseScreenIndex, uncaught >>

\* the body shared by the display-added and display-removed listeners:
\* app.relaunch(); app.exit();
OnDisplayChange(event) ==
  /\ lifecycle' = lifecycle \o << event, "relaunch", "exit" >>
  /\ phase' = "Restarting"
  /\ ProcessEnds
  /\ liveSets' = AfterExit(liveSets, instance)

ListenersRegistered == phase \in {"Running", "Quitting"}

InsertAt(s, k, r) == SubSeq(s, 1, k - 1) \o << r >> \o SubSeq(s, k, Len(s))
RemoveAt(s, k) == SubSeq(s, 1, k - 1) \o SubSeq(s, k + 1, Len(s))

\* host: a display is connected; the 'display-added' listener runs if set
DisplayAdded ==
  /\ Len(displays) < MaxDisplays
  /\ \E r \in Rects \ Range(displays), k \in 1..(Len(displays) + 1) :
       displays' = InsertAt(displays, k, r)
  /\ IF ListenersRegistered
     THEN OnDisplayChange("display-added")
     ELSE UNCHANGED << lifecycle, phase, overlayWindows, liveSets,
                       tickDisplays, currentCursor, mouseScreenIndex,
                       uncaught >>
  /\ UNCHANGED << instance, blurEnabled, blurOpacity, timer >>

\* host: a display is disconnected; the 'display-removed' listener runs if set
DisplayRemoved ==
  /\ \E k \in DOMAIN displays : displays' = RemoveAt(displays, k)
  /\ IF ListenersRegistered
     THEN OnDisplayChange("display-removed")
     ELSE UNCHANGED << lifecycle, phase, overlayWindows, liveSets,
                       tickDisplays, currentCursor, mouseScreenIndex,
                       uncaught >>
  /\ UNCHANGED << instance, blurEnabled, blurOpacity, timer >>

\* host: the bounds of a connected display change (resolution, arrangement);
\* the program registers no listener for it
DisplayMetricsChanged ==
  /\ \E k \in DOMAIN displays, r \in Rects \ Range(displays) :
       displays' = [displays EXCEPT ![k] = r]
  /\ UNCHANGED << instance, phase, overlayWindows, blurEnabled, blurOpacity,
                  timer, lifecycle, liveSets, tickDisplays, currentCursor,
                  mouseScreenIndex,
                  uncaught >>

\* the relaunch requested before exit starts a fresh process
Relaunched ==
  /\ phase = "Restarting"
  /\ instance < MaxInstances
  /\ instance' = instance + 1
  /\ phase' = "Launching"
  /\ overlayWindows' = << >>
  /\ blurEnabled' = TRUE
  /\ blurOpacity' = 70
  /\ timer' = "none"
  /\ lifecycle' = << >>
  /\ tickDisplays' = << >>
  /\ currentCursor' = NoPoint
  /\ mouseScreenIndex' = 0
  /\ uncaught' = "none"
  /\ UNCHANGED << displays, liveSets >>

Next ==
  \/ WhenReady
  \/ WhenReadyCreateFails
  \/ TimerTick
  \/ TimerTickReadFails
  \/ ClickEnableBlur
  \/ ClickIntensity
  \/ ClickQuit
  \/ QuitFinish
  \/ DisplayAdded
  \/ DisplayRemoved
  \/ DisplayMetricsChanged
  \/ Relaunched

Spec == Init /\ [][Next]_vars

\* ==== properties ==========================================================

\* containment as the specification words it: min-inclusive, max-exclusive
InRect(r, p) ==
  /\ r.x <= p.x /\ p.x < r.x + r.width
  /\ r.y <= p.y /\ p.y < r.y + r.height

\* positions (1-based) of the rectangles of T that contain p
Containing(T, p) == { k \in DOMAIN T : InRect(T[k], p) }

Overlap(a, b) ==
  /\ a.x < b.x + b.width /\ b.x < a.x + a.width
  /\ a.y < b.y + b.height /\ b.y < a.y + a.height

NonOverlapping(T) ==
  \A i, j \in DOMAIN T : i # j => ~Overlap(T[i], T[j])

SetMin(S) == CHOOSE m \in S : \A n \in S : m <= n
SetMax(S) == CHOOSE m \in S : \A n \in S : m >= n

\* updateOverlays has run at least once in the current instance
Updated == currentCursor # NoPoint

Count(s, e) == Cardinality({ k \in DOMAIN s : s[k] = e })

TopologyEvents == {"display-added", "display-removed"}

\* C1: after every run of updateOverlays, every overlay handle has been
\* pushed blurred = (blurEnabled AND its index is not the focused index of
\* that run); with blurEnabled false every handle is pushed blurred = false.
C1_BlurredMatchesState ==
  Updated =>
    \A k \in DOMAIN overlayWindows :
      /\ overlayWindows[k].pushed
      /\ overlayWindows[k].blurred = (blurEnabled /\ (k - 1) # mouseScreenIndex)
      /\ (~blurEnabled => overlayWindows[k].blurred = FALSE)

C1_Witness ==
  /\ Updated
  /\ ~blurEnabled
  /\ Len(overlayWindows) = 2
  /\ mouseScreenIndex = 1
  /\ overlayWindows[1].shown
  /\ ~overlayWindows[1].blurred
  /\ ~overlayWindows[2].blurred

\* C2: when the rectangles read by a run are pairwise non-overlapping and
\* the cursor lies in exactly one of them, the run resolves the focus to
\* the index of that rectangle.
C2_UniqueContainerIsFocused ==
  (Updated /\ NonOverlapping(tickDisplays)
     /\ Cardinality(Containing(tickDisplays, currentCursor)) = 1)
  => \A k \in Containing(tickDisplays, currentCursor) :
       mouseScreenIndex = k - 1

C2_Witness ==
  /\ tickDisplays = << RectB, RectA >>
  /\ currentCursor = [x |-> 1920, y |-> 100]
  /\ mouseScreenIndex = 0

\* C3: when the cursor read by a run lies outside every rectangle read by
\* that run (also when there is no rectangle), the focus resolves to 0.
C3_OutsideResolvesToZero ==
  (Updated /\ Containing(tickDisplays, currentCursor) = {})
  => mouseScreenIndex = 0

C3_Witness ==
  /\ tickDisplays = << RectB, RectA >>
  /\ currentCursor = [x |-> 100, y |-> 1080]
  /\ mouseScreenIndex = 0

\* the empty display list, the edge case of C3
C3_EmptyReached ==
  /\ Updated
  /\ tickDisplays = << >>
  /\ mouseScreenIndex = 0

\* C4 as claimed: when the cursor lies in more than one rectangle, the
\* focus resolves to the lowest index among them (first match wins).
C4_FirstMatchWins ==
  (Updated /\ Cardinality(Containing(tickDisplays, currentCursor)) > 1)
  => mouseScreenIndex = SetMin(Containing(tickDisplays, currentCursor)) - 1

\* C4 as amended: when the cursor lies in more than one rectangle, the
\* focus resolves to the highest index among them (last match wins).
C4_LastMatchWins ==
  (Updated /\ Cardinality(Containing(tickDisplays, currentCursor)) > 1)
  => mouseScreenIndex = SetMax(Containing(tickDisplays, currentCursor)) - 1

C4_Witness ==
  /\ tickDisplays = << RectA, RectC >>
  /\ currentCursor = [x |-> 100, y |-> 100]
  /\ mouseScreenIndex = 1

\* C5: while Running, after a run of updateOverlays the overlay set matches
\* the topology that run read: as many handles as monitors, and handle i
\* has the bounds of monitor i.
C5_OverlaysMatchTopology ==
  (phase = "Running" /\ Updated) =>
    /\ Len(overlayWindows) = Len(tickDisplays)
    /\ \A k \in DOMAIN overlayWindows :
         k \in DOMAIN tickDisplays
           /\ overlayWindows[k].bounds = tickDisplays[k]

\* C6: an instance requests at most one relaunch and at most one exit; a
\* display-added or display-removed notification it handles puts it in
\* Restarting after exactly one relaunch followed by exactly one exit.
C6_OneRelaunchThenExit ==
  /\ Count(lifecycle, "relaunch") <= 1
  /\ Count(lifecycle, "exit") <= 1
  /\ \A k \in DOMAIN lifecycle :
       lifecycle[k] \in TopologyEvents =>
         /\ phase = "Restarting"
         /\ Len(lifecycle) = k + 2
         /\ lifecycle[k + 1] = "relaunch"
         /\ lifecycle[k + 2] = "exit"

C6_Witness ==
  /\ phase = "Restarting"
  /\ lifecycle = << "display-removed", "relaunch", "exit" >>
  /\ timer = "armed"
  /\ Len(displays) = 1

\* C7: once an instance has handled a topology change it is in Restarting
\* and stays there: no later step of that instance runs updateOverlays or
\* pushes anything to an overlay.
C7_RestartingIsTerminal ==
  [][ (\E k \in DOMAIN lifecycle : lifecycle[k] \in TopologyEvents) =>
        /\ phase = "Restarting"
        /\ \/ instance' # instance
           \/ /\ phase' = "Restarting"
              /\ UNCHANGED << overlayWindows, tickDisplays, currentCursor,
                              mouseScreenIndex, blurEnabled, blurOpacity,
                              lifecycle >> ]_vars

C7_Witness ==
  /\ phase = "Restarting"
  /\ instance = 1
  /\ lifecycle = << "display-added", "relaunch", "exit" >>
  /\ ~blurEnabled
  /\ Len(displays) = 0

\* C8: with blur enabled and one overlay per monitor, when one run finds
\* the cursor on monitor i only and the next run finds it on monitor j only,
\* j # i, then after the first run i is pushed blurred=false and every
\* other monitor blurred=true, and after the second run j is pushed
\* blurred=false and i blurred=true.
C8_FocusFollowsCursor ==
  [][ ( /\ Updated /\ instance' = instance
        /\ blurEnabled /\ blurEnabled'
        /\ Len(overlayWindows) = Len(tickDisplays)
        /\ Len(overlayWindows') = Len(tickDisplays') )
      => \A i \in DOMAIN tickDisplays, j \in DOMAIN tickDisplays' :
           ( /\ i # j
             /\ Containing(tickDisplays, currentCursor) = {i}
             /\ Containing(tickDisplays', currentCursor') = {j} )
           => /\ \A k \in DOMAIN overlayWindows :
                   overlayWindows[k].blurred = (k # i)
              /\ overlayWindows'[j].blurred = FALSE
              /\ overlayWindows'[i].blurred = TRUE ]_vars

C8_Witness ==
  /\ phase = "Running"
  /\ blurEnabled
  /\ tickDisplays = << RectA, RectB >>
  /\ currentCursor = [x |-> 2000, y |-> 100]
  /\ mouseScreenIndex = 1
  /\ Len(overlayWindows) = 2
  /\ overlayWindows[1].blurred /\ overlayWindows[1].shown
  /\ ~overlayWindows[2].blurred /\ overlayWindows[2].shown

\* C9: on the tray Quit, the poll timer is cancelled when teardown begins
\* (no tick after that), and at process exit every overlay handle is
\* destroyed and the timer has been cancelled.
C9_TeardownOnQuit ==
  /\ phase = "Quitting" => timer = "cancelled"
  /\ phase = "Exited" =>
       /\ timer = "cancelled"
       /\ instance \notin liveSets

\* a topology-triggered restart is under way: the outgoing instance has
\* exited, or the relaunched one has not created its overlays yet
RestartInProgress ==
  \/ phase = "Restarting"
  \/ (phase = "Launching" /\ instance > 1)

\* C10 as claimed: during a topology-triggered restart there is never a
\* state with zero overlay sets and never one with two.
C10_ExactlyOneSetDuringRestart ==
  RestartInProgress => Cardinality(liveSets) = 1

\* C10 as amended: there are never two overlay sets at once; the outgoing
\* instance's set is destroyed before the relaunched instance starts, and
\* no overlay set exists from then until the new instance is ready.
C10_NeverTwoSets ==
  /\ Cardinality(liveSets) <= 1
  /\ RestartInProgress => liveSets = {}
  /\ phase = "Running" => liveSets = {instance}

C10_Witness ==
  /\ instance = 2
  /\ phase = "Running"
  /\ liveSets = {2}
  /\ Len(overlayWindows) = 2

\* C11: when the host refuses the overlay window of some display, the
\* whenReady handler still finishes: the instance is Running with the
\* poll timer armed, and only the refused index is left without a handle.
C11_CreationFailureIsNonFatal ==
  [][ WhenReadyCreateFails =>
        /\ phase' = "Running"
        /\ timer' = "armed"
        /\ Len(overlayWindows') >= Len(displays) - 1 ]_vars

\* C12: a timer tick whose topology or cursor read fails is a no-change
\* step: focused index and overlays are kept, and no exception leaves
\* the tick.
C12_ReadFailureIsNoChange ==
  [][ TimerTickReadFails =>
        /\ UNCHANGED << tickDisplays, currentCursor, mouseScreenIndex,
                        overlayWindows >>
        /\ uncaught' = uncaught ]_vars

\* C13: blurOpacity is always one of 30, 50, 70, 90 percent, hence within
\* [0,1], and so is every opacity value pushed to an overlay.
C13_OpacityInRange ==
  /\ blurOpacity \in {30, 50, 70, 90}
  /\ 0 <= blurOpacity /\ blurOpacity <= 100
  /\ \A k \in DOMAIN overlayWindows :
       overlayWindows[k].pushed =>
         /\ overlayWindows[k].opacity \in {30, 50, 70, 90}
         /\ 0 <= overlayWindows[k].opacity
         /\ overlayWindows[k].opacity <= 100

C13_Witness ==
  /\ blurOpacity = 90
  /\ Len(overlayWindows) = 2
  /\ overlayWindows[2].blurred
  /\ overlayWindows[2].opacity = 90

\* C14: a run of updateOverlays sends exactly one message to every handle
\* of overlayWindows, also to a handle whose blurred value is false, and
\* the opacity of every message is blurOpacity as the run found it.
C14_OnePushPerHandle ==
  Updated =>
    \A k \in DOMAIN overlayWindows :
      /\ overlayWindows[k].sent = 1
      /\ overlayWindows[k].opacity = blurOpacity

C14_Witness ==
  /\ Updated
  /\ ~blurEnabled
  /\ blurOpacity = 30
  /\ Len(overlayWindows) = 2
  /\ \A k \in DOMAIN overlayWindows :
       /\ overlayWindows[k].sent = 1
       /\ ~overlayWindows[k].blurred
       /\ overlayWindows[k].opacity = 30

\* C15: running the broadcast again with the topology, cursor, blurEnabled
\* and blurOpacity of the run just made leaves every handle as it is.
C15_BroadcastIdempotent ==
  Updated =>
    Broadcast(overlayWindows, blurEnabled, blurOpacity,
              FocusResolve(tickDisplays, currentCursor)) = overlayWindows

C15_Witness ==
  /\ Updated
  /\ phase = "Running"
  /\ blurEnabled
  /\ Len(overlayWindows) = 2
  /\ mouseScreenIndex = 0
  /\ overlayWindows[2].blurred /\ overlayWindows[2].shown
  /\ ~overlayWindows[1].blurred /\ ~overlayWindows[1].shown

\* a step of the running instance in which updateOverlays ran
RunStep ==
  /\ phase' = phase
  /\ instance' = instance
  /\ \/ currentCursor' # currentCursor
     \/ mouseScreenIndex' # mouseScreenIndex
     \/ tickDisplays' # tickDisplays
     \/ overlayWindows' # overlayWindows

\* the focused index as the code resolves it: 0 or the last match
ResolvedIndex(T, p) ==
  IF Containing(T, p) = {} THEN 0 ELSE SetMax(Containing(T, p)) - 1

\* the run made in a step is complete at the end of the step: snapshot,
\* then focus resolution on that snapshot, then broadcast with that focus
RunCompleteInStep ==
  /\ tickDisplays' = displays
  /\ currentCursor' \in Points
  /\ \A k \in DOMAIN overlayWindows' :
       /\ overlayWindows'[k].sent = 1
       /\ overlayWindows'[k].blurred =
            (blurEnabled' /\ (k - 1) # mouseScreenIndex')

\* C16 as claimed: every run of updateOverlays is started by a firing of
\* the poll timer.
C16_OnlyTimerStartsRuns ==
  [][ RunStep => TimerTick ]_vars

\* C16 as amended: every run of updateOverlays is started by a firing of
\* the poll timer or by a tray click ('Enable Blur', 'Blur Intensity'), and
\* is atomic: snapshot, focus resolution and broadcast complete in the step.
C16_RunsAreAtomic ==
  [][ RunStep =>
        /\ RunCompleteInStep
        /\ IF UNCHANGED << blurEnabled, blurOpacity >> THEN TimerTick
           ELSE IF blurEnabled' # blurEnabled THEN ClickEnableBlur
           ELSE ClickIntensity ]_vars

C16_Witness ==
  /\ Updated
  /\ phase = "Running"
  /\ blurOpacity = 50
  /\ Len(overlayWindows) = 2
  /\ mouseScreenIndex = 1
  /\ overlayWindows[1].blurred /\ overlayWindows[1].opacity = 50
  /\ ~overlayWindows[2].blurred /\ overlayWindows[2].opacity = 50

\* C17: a tick and the lifecycle and topology steps (those that change the
\* phase, the display list or the lifecycle record) leave blurEnabled and
\* blurOpacity unchanged; 'Enable Blur' changes blurEnabled and leaves
\* blurOpacity; 'Blur Intensity' sets blurOpacity and leaves blurEnabled.
C17_BlurStateFrame ==
  [][ instance' = instance =>
        /\ (phase' # phase \/ displays' # displays \/ lifecycle' # lifecycle)
             => UNCHANGED << blurEnabled, blurOpacity >>
        /\ \/ UNCHANGED << blurEnabled, blurOpacity >>
           \/ ~(TimerTick \/ TimerTickReadFails)
        /\ blurEnabled' # blurEnabled =>
             (phase = "Running" /\ blurOpacity' = blurOpacity)
        /\ blurOpacity' # blurOpacity =>
             (phase = "Running" /\ blurEnabled' = blurEnabled)
        /\ \/ (blurEnabled' = ~blurEnabled /\ blurOpacity' = blurOpacity)
           \/ ~ClickEnableBlur
        /\ \/ (blurEnabled' = blurEnabled /\ blurOpacity' \in {30, 50, 70, 90})
           \/ ~ClickIntensity
    ]_vars

C17_Witness ==
  /\ phase = "Running"
  /\ ~blurEnabled
  /\ blurOpacity = 30
  /\ Len(overlayWindows) = 1

\* C18: within an instance a handle that is shown stays shown, and a
\* handle pushed blurred=true is shown; nothing hides a handle.
C18_ShownIsMonotone ==
  [][ /\ (instance' = instance /\ phase' \in {"Running", "Quitting"}) =>
          \A k \in DOMAIN overlayWindows :
            overlayWindows[k].shown =>
              (k \in DOMAIN overlayWindows' /\ overlayWindows'[k].shown)
      /\ \A k \in DOMAIN overlayWindows' :
           overlayWindows'[k].blurred => overlayWindows'[k].shown ]_vars

C18_Witness ==
  /\ phase = "Running"
  /\ blurEnabled
  /\ Len(overlayWindows) = 2
  /\ mouseScreenIndex = 0
  /\ overlayWindows[1].shown /\ ~overlayWindows[1].blurred
  /\ overlayWindows[2].shown /\ overlayWindows[2].blurred

\* C19: at the end of a step that changed blurEnabled or blurOpacity (a
\* tray action), every handle's last push carries the new values combined
\* with the cursor position and topology read in that step.
C19_TrayChangeIsPushedAtOnce ==
  [][ ( /\ instance' = instance
        /\ (blurEnabled' # blurEnabled \/ blurOpacity' # blurOpacity) )
      => /\ tickDisplays' = displays
         /\ currentCursor' \in Points
         /\ \A k \in DOMAIN overlayWindows' :
              /\ overlayWindows'[k].pushed
              /\ overlayWindows'[k].opacity = blurOpacity'
              /\ overlayWindows'[k].blurred =
                   ( blurEnabled'
                     /\ (k - 1) # ResolvedIndex(displays, currentCursor') ) ]_vars

C19_Witness ==
  /\ phase = "Running"
  /\ ~blurEnabled
  /\ blurOpacity = 90
  /\ Len(overlayWindows) = 2
  /\ overlayWindows[2].shown
  /\ ~overlayWindows[2].blurred
  /\ overlayWindows[2].opacity = 90

====
